---- MODULE Spec2Model ----
(***************************************************************************)
(* State-machine model of src/src/V2X_OBU.py: the VANET listening thread,  *)
(* the LAN listening thread and main(), interleaved at the granularity of  *)
(* their accesses to the shared globals (error, waiting_for_ack, mutex)    *)
(* and to the two UDP transports.                                          *)
(*                                                                         *)
(* Python values are modelled with their type: a bytes object is           *)
(* [t |-> "bytes", v |-> <<byte values>>], a str is                        *)
(* [t |-> "str", v |-> <<code points>>].  A call that can raise returns    *)
(* [ok |-> BOOLEAN, v |-> result].                                         *)
(***************************************************************************)
EXTENDS Integers, Sequences, FiniteSets, TLC

(***************************************************************************)
(* Bounds of the model.                                                    *)
(***************************************************************************)
\* frames the two transports deliver to the program in one run (both sides)
MaxFrames == 3

\* ... in a run over transports whose send may raise
SendFailFrames == 2

\* the frames each transport hands over in a behaviour checked under fairness
FairFrames == 2

\* the frames both transports hand over in a behaviour with a VANET peer (LAN
\* messages and acknowledgments of the peer), and the acknowledgments the
\* channel from the peer holds at a time
PeerFrames == 3

MaxAcks == 2

(***************************************************************************)
(* Program constants.                                                      *)
(***************************************************************************)
\* for i in range(120)
MaxRetries == 120

(***************************************************************************)
(* Python values.                                                          *)
(***************************************************************************)
Bytes(s) == [t |-> "bytes", v |-> s]

Str(s) == [t |-> "str", v |-> s]

\* Python 3 `==`: a str never equals a bytes object
PyEq(a, b) == a.t = b.t /\ a.v = b.v

Raise == [ok |-> FALSE, v |-> <<>>]

Return(x) == [ok |-> TRUE, v |-> x]

\* b"1"
ack == <<49>>

\* the text "Payload="
PayloadMarker == <<80, 97, 121, 108, 111, 97, 100, 61>>

(***************************************************************************)
(* bytes.decode('utf-8'): code points of a well-formed UTF-8 sequence,     *)
(* UnicodeDecodeError otherwise.                                           *)
(***************************************************************************)
Cont(b) == b >= 128 /\ b <= 191

\* length of the well-formed UTF-8 sequence that starts s, 0 when there is none
Utf8Len(s) ==
  LET n == Len(s)
      b1 == s[1]
  IN  IF b1 <= 127 THEN 1
      ELSE IF b1 >= 194 /\ b1 <= 223
        THEN IF n >= 2 /\ Cont(s[2]) THEN 2 ELSE 0
      ELSE IF b1 >= 224 /\ b1 <= 239
        THEN IF /\ n >= 3
                /\ Cont(s[2]) /\ Cont(s[3])
                /\ (b1 = 224 => s[2] >= 160)
                /\ (b1 = 237 => s[2] <= 159)
             THEN 3 ELSE 0
      ELSE IF b1 >= 240 /\ b1 <= 244
        THEN IF /\ n >= 4
                /\ Cont(s[2]) /\ Cont(s[3]) /\ Cont(s[4])
                /\ (b1 = 240 => s[2] >= 144)
                /\ (b1 = 244 => s[2] <= 143)
             THEN 4 ELSE 0
      ELSE 0

Utf8Point(s, k) ==
  CASE k = 1 -> s[1]
    [] k = 2 -> (s[1] - 192) * 64 + (s[2] - 128)
    [] k = 3 -> (s[1] - 224) * 4096 + (s[2] - 128) * 64 + (s[3] - 128)
    [] OTHER -> (s[1] - 240) * 262144 + (s[2] - 128) * 4096
                  + (s[3] - 128) * 64 + (s[4] - 128)

\* the code points of s one after the other; -1 closes the sequence where s
\* stops being well-formed.  from[k] is the result for the bytes from the k-th
Utf8Points(s) ==
  LET from[k \in 1..(Len(s) + 1)] ==
        IF k > Len(s) THEN <<>>
        ELSE IF Utf8Len(SubSeq(s, k, Len(s))) = 0 THEN <<-1>>
        ELSE <<Utf8Point(SubSeq(s, k, Len(s)), Utf8Len(SubSeq(s, k, Len(s))))>>
               \o from[k + Utf8Len(SubSeq(s, k, Len(s)))]
  IN from[1]

decode_utf8(s) ==
  IF \E p \in {Utf8Points(s)} : p # <<>> /\ p[Len(p)] = -1 THEN Raise
  ELSE Return(Utf8Points(s))

\* bytes.decode('ascii')
decode_ascii(s) ==
  IF \A k \in 1..Len(s) : s[k] <= 127 THEN Return(s) ELSE Raise

(***************************************************************************)
(* str.find, slicing and binascii.unhexlify as strip_header uses them.     *)
(***************************************************************************)
\* str.find(sub): lowest 0-based index where sub occurs, -1 when it does not
Find(data, sub) ==
  LET hits == {k \in 0..(Len(data) - Len(sub)) :
                 SubSeq(data, k + 1, k + Len(sub)) = sub}
  IN  IF hits = {} THEN -1
      ELSE CHOOSE k \in hits : \A j \in hits : k <= j

\* data[start:-1] for start >= 0
SliceToLast(data, start) == SubSeq(data, start + 1, Len(data) - 1)

IsHexDigit(c) ==
  \/ c >= 48 /\ c <= 57
  \/ c >= 65 /\ c <= 70
  \/ c >= 97 /\ c <= 102

HexVal(c) ==
  IF c <= 57 THEN c - 48
  ELSE IF c <= 70 THEN c - 55
  ELSE c - 87

unhexlify(s) ==
  IF Len(s) % 2 = 0 /\ \A k \in 1..Len(s) : IsHexDigit(s[k])
  THEN Return([k \in 1..(Len(s) \div 2) |->
                 16 * HexVal(s[2 * k - 1]) + HexVal(s[2 * k])])
  ELSE Raise

strip_header(packet) ==
  LET data == decode_ascii(packet)
  IN  IF ~data.ok THEN Raise
      ELSE LET idx == Find(data.v, PayloadMarker)
               payload == SliceToLast(data.v, idx + 8)
           IN  unhexlify(payload)

(***************************************************************************)
(* Frames the environment may deliver.                                     *)
(***************************************************************************)
\* b"Payload=41\n": a framed message whose payload is the byte 0x41
FramedA == PayloadMarker \o <<52, 49, 10>>

\* b"Payload=4\n": the payload has an odd number of hex digits
FramedOdd == PayloadMarker \o <<52, 10>>

\* b"AB": no marker; strip_header yields b""
Unframed == <<65, 66>>

\* b"\xff": not UTF-8
NotUtf8 == <<255>>

VanetFrames == {ack, FramedA, FramedOdd, <<>>, NotUtf8}

LanFrames == {FramedA, Unframed}

\* what follows the first frame when two arrived between two polls
Trailing == {FramedA}

\* the non-empty lists a recv_packets() call may return when n frames remain:
\* one frame, or two that arrived between two polls
Batches(frames, n) ==
  {<<f>> : f \in frames}
    \cup (IF n < 2 THEN {} ELSE {<<f, g>> : f \in frames, g \in Trailing})

(***************************************************************************)
(* State.                                                                  *)
(***************************************************************************)
VARIABLES
  error,                     \* global error (fatalError)
  waiting_for_ack,           \* global waiting_for_ack (awaitingAck)
  mutex,                     \* "free", or the thread inside `with mutex`
  vanet_error,               \* vanet.error
  lan_error,                 \* lan.error
  parseVANETPacket,          \* params['VANET_DECODE']
  parseLANPacket,            \* params['LAN_DECODE']
  previous_packet_received,  \* local of VANET_listening_thread
  vpc,                       \* position of VANET_listening_thread
  vpkt,                      \* its pkt
  lpc,                       \* position of LAN_listening_thread
  lpkt,                      \* its pkt
  i,                         \* its retry loop: iterations of `for i` completed
  mainpc,                    \* position of main()
  vanetSent,                 \* what was sent with vanet.send_data, per caller
  lanSent,                   \* what was sent with lan.send_data
  delivered,                 \* frames handed out by recv_packets() so far
  run,                       \* history: the current run of identical VANET polls
  ackSinceFwd,               \* history: acknowledgments since line 188 ran
  frames,                    \* frames the two networks carry in this run
  acksInFlight,              \* the VANET peer: its acknowledgments under way
  peerGot                    \* the VANET peer: the LAN messages it received

vars == <<error, waiting_for_ack, mutex, vanet_error, lan_error,
          parseVANETPacket, parseLANPacket, previous_packet_received,
          vpc, vpkt, lpc, lpkt, i, mainpc, vanetSent, lanSent, delivered,
          run, ackSinceFwd, frames, acksInFlight, peerGot>>

shared == <<error, waiting_for_ack, mutex>>
transports == <<vanet_error, lan_error>>
config == <<parseVANETPacket, parseLANPacket>>
vlocal == <<previous_packet_received, vpc, vpkt>>
llocal == <<lpc, lpkt, i>>
sent == <<vanetSent, lanSent>>
history == <<run, ackSinceFwd>>
network == <<frames, acksInFlight, peerGot>>

\* no VANET poll has returned a frame yet / the polls so far were not all one
\* and the same single frame
NoRun == [frame |-> <<>>, k |-> 0]

Broken == [frame |-> <<>>, k |-> -1]

\* the state when main() is called, the networks carrying n frames
Start(n) ==
  /\ error = FALSE
  /\ waiting_for_ack = FALSE
  /\ mutex = "free"
  /\ vanet_error = FALSE
  /\ lan_error = FALSE
  /\ parseVANETPacket \in BOOLEAN
  /\ parseLANPacket \in BOOLEAN
  /\ previous_packet_received = Str(<<>>)
  /\ vpc = "idle"
  /\ vpkt = <<>>
  /\ lpc = "idle"
  /\ lpkt = <<>>
  /\ i = 0
  /\ mainpc = "startLAN"
  /\ vanetSent = [LAN |-> [msgs |-> 0, data |-> <<>>, n |-> 0],
                  VANET |-> [n |-> 0, data |-> <<>>, line |-> 0]]
  /\ lanSent = [n |-> 0, by |-> "none", data |-> <<>>]
  /\ delivered = 0
  /\ run = NoRun
  /\ ackSinceFwd = "none"
  /\ frames = n
  /\ acksInFlight = 0
  /\ peerGot = {}

Init == Start(MaxFrames)

(***************************************************************************)
(* The transports' send_data, as the two wrappers call it.                 *)
(***************************************************************************)
\* a variant that strips the header first, as sendLAN does
sendVANET_first_stripped(log, vPacket) ==
  [log EXCEPT !.LAN = [msgs |-> @.msgs + 1,
                       data |-> strip_header(vPacket).v, n |-> 1]]

\* sendVANET(pkt[0]) at line 188: the LAN thread's first transmission of a
\* newly polled message
sendVANET_first(log, vPacket) ==
  [log EXCEPT !.LAN = [msgs |-> @.msgs + 1, data |-> vPacket, n |-> 1]]

\* sendVANET(pkt[0]) at line 196: n counts how often the same bytes went out in
\* a row since the first transmission
sendVANET_again(log, vPacket) ==
  [log EXCEPT !.LAN = IF @.data = vPacket
                        THEN [@ EXCEPT !.n = @ + 1]
                        ELSE [@ EXCEPT !.data = vPacket, !.n = 1]]

\* sendVANET(ack) at line 151 or at line 154, from the VANET thread
sendVANET_ack(log, vPacket, line) ==
  [log EXCEPT !.VANET = [n |-> @.n + 1, data |-> vPacket, line |-> line]]

\* a variant that forwards the frame as received
sendLAN_raw(log, who, lPacket) ==
  Return([n |-> log.n + 1, by |-> who, data |-> lPacket])

\* sendLAN(lPacket): strip_header may raise before anything is sent
sendLAN(log, who, lPacket) ==
  LET stripped == strip_header(lPacket)
  IN  IF stripped.ok
        THEN Return([n |-> log.n + 1, by |-> who, data |-> stripped.v])
        ELSE Raise

(***************************************************************************)
(* The mutex: `with mutex:` acquires on entry and releases on every exit.  *)
(***************************************************************************)
Acquire(t) == mutex = "free" /\ mutex' = t

Release(t) == mutex = t /\ mutex' = "free"

(***************************************************************************)
(* Both threads are daemon threads (line 244): they run from their start   *)
(* until main() returns, which ends the process.                           *)
(***************************************************************************)
Running == mainpc # "done"

\* a running thread at position `where` of its code
At(pc, where) == Running /\ pc = where

(***************************************************************************)
(* VANET_listening_thread (lines 130-173).  A step ends right after the    *)
(* thread touched the mutex, a shared global or a transport.  A timed wait *)
(* (time.sleep) opens the step that follows it: the waits at lines 168-169 *)
(* open the step at "while"; in the LAN thread those at lines 213-214 open *)
(* the step at "while" and those at lines 192 and 200 the step at "for".   *)
(***************************************************************************)
\* lines 169, 134-135: `while not vanet.error` reads False; with mutex
V_while ==
  /\ At(vpc, "while")
  /\ ~vanet_error
  /\ Acquire("VANET")
  /\ vpc' = "if_error"
  /\ UNCHANGED <<error, waiting_for_ack, transports, config, network,
                 previous_packet_received, vpkt, llocal, mainpc, sent,
                 delivered, history>>

\* lines 169, 134: `while not vanet.error` reads True; the transport raises
\* its flag on its own and never clears it
V_while_error ==
  /\ At(vpc, "while")
  /\ vanet_error' = TRUE
  /\ vpc' = "exit"
  /\ UNCHANGED <<shared, lan_error, config, network, previous_packet_received,
                 vpkt, llocal, mainpc, sent, delivered, history>>

\* a variant that keeps polling whatever the shared flag says
V_if_error_ignored ==
  /\ At(vpc, "if_error")
  /\ Release("VANET")
  /\ vpc' = "recv"
  /\ UNCHANGED <<error, waiting_for_ack, transports, config, network,
                 previous_packet_received, vpkt, llocal, mainpc, sent,
                 delivered, history>>

\* lines 136-137: if error: break
V_if_error ==
  /\ At(vpc, "if_error")
  /\ Release("VANET")
  /\ vpc' = IF error THEN "exit" ELSE "recv"
  /\ UNCHANGED <<error, waiting_for_ack, transports, config, network,
                 previous_packet_received, vpkt, llocal, mainpc, sent,
                 delivered, history>>

\* history of the VANET polls after one more poll returned batch: k counts the
\* polls when every one so far returned the same single frame
NextRun(batch) ==
  IF run = NoRun /\ Len(batch) = 1 THEN [frame |-> batch[1], k |-> 1]
  ELSE IF run.k > 0 /\ batch = <<run.frame>> THEN [run EXCEPT !.k = @ + 1]
  ELSE Broken

\* line 140: pkt = vanet.recv_packets() returns a non-empty list, and
\* parseVANETPacket is False (line 143)
V_recv ==
  /\ At(vpc, "recv")
  /\ ~parseVANETPacket
  /\ delivered < frames
  /\ \E batch \in Batches(VanetFrames, frames - delivered) :
       /\ vpkt' = batch
       /\ delivered' = delivered + Len(batch)
       /\ run' = NextRun(batch)
  /\ vpc' = "decode"
  /\ UNCHANGED <<shared, transports, config, network, previous_packet_received,
                 llocal, mainpc, sent, ackSinceFwd>>

\* lines 158-161: a non-empty list with parseVANETPacket True raises
\* NotImplementedError; the bare except at line 164
V_recv_parse ==
  /\ At(vpc, "recv")
  /\ parseVANETPacket
  /\ delivered < frames
  /\ \E batch \in Batches(VanetFrames, frames - delivered) :
       /\ delivered' = delivered + Len(batch)
       /\ run' = NextRun(batch)
  /\ vpc' = "while"
  /\ UNCHANGED <<shared, transports, config, network, previous_packet_received,
                 vpkt, llocal, mainpc, sent, ackSinceFwd>>

\* line 140 returns [] (line 142 is false)
V_recv_none ==
  /\ At(vpc, "recv")
  /\ vpc' = "while"
  /\ UNCHANGED <<shared, transports, config, network, previous_packet_received,
                 vpkt, llocal, mainpc, sent, delivered, history>>

\* line 140 raises: the bare except at line 164
V_recv_raise ==
  /\ At(vpc, "recv")
  /\ vpc' = "while"
  /\ UNCHANGED <<shared, transports, config, network, previous_packet_received,
                 vpkt, llocal, mainpc, sent, delivered, history>>

\* line 145: data = pkt[0].decode('utf-8')
data == decode_utf8(vpkt[1])

\* lines 146, 150, 153: the branch taken for the str d
Classify(d, previous) ==
  IF PyEq(d, Str(ack)) THEN "ack"
  ELSE IF PyEq(d, previous) THEN "duplicate"
  ELSE "new"

\* line 145 raises UnicodeDecodeError: the bare except at line 164
V_decode_raise ==
  /\ At(vpc, "decode")
  /\ ~data.ok
  /\ vpc' = "while"
  /\ vpkt' = <<>>
  /\ UNCHANGED <<shared, transports, config, network, previous_packet_received,
                 llocal, mainpc, sent, delivered, history>>

\* history of the acknowledgments processed since the LAN thread's last first
\* transmission (line 188), after line 148 ran once more:
\*   "none"             none was processed, none is in the VANET thread's hands
\*   "stale"            none was processed; the VANET thread holds one that it
\*                      polled before that transmission
\*   "stale_processed"  only that one was processed
\*   "noop"             one polled after the transmission was processed, and
\*                      each such found waiting_for_ack false already
\*   "cleared"          one polled after the transmission cleared a true
\*                      waiting_for_ack
AfterAck ==
  IF ackSinceFwd = "stale" THEN "stale_processed"
  ELSE IF waiting_for_ack THEN "cleared"
  ELSE IF ackSinceFwd = "cleared" THEN "cleared"
  ELSE "noop"

\* lines 146-147: data == "1", enter `with mutex`
V_ack ==
  /\ At(vpc, "decode")
  /\ data.ok
  /\ Classify(Str(data.v), previous_packet_received) = "ack"
  /\ Acquire("VANET")
  /\ vpc' = "clear"
  /\ UNCHANGED <<error, waiting_for_ack, transports, config, network,
                 previous_packet_received, vpkt, llocal, mainpc, sent,
                 delivered, history>>

\* lines 148-149: waiting_for_ack = False, leave `with mutex`
V_clear ==
  /\ At(vpc, "clear")
  /\ Release("VANET")
  /\ waiting_for_ack' = FALSE
  /\ ackSinceFwd' = AfterAck
  /\ vpc' = "while"
  /\ vpkt' = <<>>
  /\ UNCHANGED <<error, transports, config, network, previous_packet_received,
                 llocal, mainpc, sent, delivered, run>>

\* a variant that forwards the duplicate to the LAN as well
V_duplicate_forwards ==
  /\ At(vpc, "decode")
  /\ data.ok
  /\ Classify(Str(data.v), previous_packet_received) = "duplicate"
  /\ vanetSent' = sendVANET_ack(vanetSent, ack, 151)
  /\ lanSent' = [n |-> lanSent.n + 1, by |-> "VANET", data |-> vpkt[1]]
  /\ vpc' = "while"
  /\ vpkt' = <<>>
  /\ UNCHANGED <<shared, transports, config, network, previous_packet_received,
                 llocal, mainpc, delivered, history>>

\* lines 150-152: duplicate, sendVANET(ack)
V_duplicate ==
  /\ At(vpc, "decode")
  /\ data.ok
  /\ Classify(Str(data.v), previous_packet_received) = "duplicate"
  /\ vanetSent' = sendVANET_ack(vanetSent, ack, 151)
  /\ vpc' = "while"
  /\ vpkt' = <<>>
  /\ UNCHANGED <<shared, transports, config, network, previous_packet_received,
                 llocal, mainpc, lanSent, delivered, history>>

\* lines 153-157: new message: sendVANET(ack); sendLAN(pkt[0]);
\* previous_packet_received = pkt[0]
V_new ==
  /\ At(vpc, "decode")
  /\ data.ok
  /\ Classify(Str(data.v), previous_packet_received) = "new"
  /\ sendLAN(lanSent, "VANET", vpkt[1]).ok
  /\ vanetSent' = sendVANET_ack(vanetSent, ack, 154)
  /\ lanSent' = sendLAN(lanSent, "VANET", vpkt[1]).v
  /\ previous_packet_received' = Bytes(vpkt[1])
  /\ vpc' = "while"
  /\ vpkt' = <<>>
  /\ UNCHANGED <<shared, transports, config, network, llocal, mainpc, delivered,
                 history>>

\* lines 153-155, 164: new message: sendVANET(ack); sendLAN(pkt[0]) raises
\* inside strip_header, so line 156 is skipped
V_new_raise ==
  /\ At(vpc, "decode")
  /\ data.ok
  /\ Classify(Str(data.v), previous_packet_received) = "new"
  /\ ~sendLAN(lanSent, "VANET", vpkt[1]).ok
  /\ vanetSent' = sendVANET_ack(vanetSent, ack, 154)
  /\ vpc' = "while"
  /\ vpkt' = <<>>
  /\ UNCHANGED <<shared, transports, config, network, previous_packet_received,
                 llocal, mainpc, lanSent, delivered, history>>

\* line 171: with mutex
V_exit ==
  /\ At(vpc, "exit")
  /\ Acquire("VANET")
  /\ vpc' = "set_error"
  /\ UNCHANGED <<error, waiting_for_ack, transports, config, network,
                 previous_packet_received, vpkt, llocal, mainpc, sent,
                 delivered, history>>

\* lines 172-173: error = True
V_set_error ==
  /\ At(vpc, "set_error")
  /\ Release("VANET")
  /\ error' = TRUE
  /\ vpc' = "done"
  /\ UNCHANGED <<waiting_for_ack, transports, config, network,
                 previous_packet_received, vpkt, llocal, mainpc, sent,
                 delivered, history>>

VANET_listening_thread ==
  \/ V_while \/ V_while_error \/ V_if_error
  \/ V_recv \/ V_recv_parse \/ V_recv_none \/ V_recv_raise
  \/ V_decode_raise \/ V_ack \/ V_clear \/ V_duplicate
  \/ V_new \/ V_new_raise
  \/ V_exit \/ V_set_error

(***************************************************************************)
(* LAN_listening_thread (lines 175-218).                                   *)
(***************************************************************************)
\* lines 214, 178-179: `while not lan.error` reads False; with mutex
L_while ==
  /\ At(lpc, "while")
  /\ ~lan_error
  /\ Acquire("LAN")
  /\ lpc' = "if_error"
  /\ UNCHANGED <<error, waiting_for_ack, transports, config, network, vlocal,
                 lpkt, i, mainpc, sent, delivered, history>>

\* lines 214, 178: `while not lan.error` reads True
L_while_error ==
  /\ At(lpc, "while")
  /\ lan_error' = TRUE
  /\ lpc' = "exit"
  /\ UNCHANGED <<shared, vanet_error, config, network, vlocal, lpkt, i, mainpc,
                 sent, delivered, history>>

\* a variant without the break: the loop goes on although error is set
L_if_error_ignored ==
  /\ At(lpc, "if_error")
  /\ Release("LAN")
  /\ lpc' = "recv"
  /\ UNCHANGED <<error, waiting_for_ack, transports, config, network, vlocal,
                 lpkt, i, mainpc, sent, delivered, history>>

\* a variant whose `with mutex` also spans the poll at line 185
L_if_error_held ==
  /\ At(lpc, "if_error")
  /\ mutex = "LAN"
  /\ lpc' = IF error THEN "exit" ELSE "recv"
  /\ UNCHANGED <<shared, transports, config, network, vlocal, lpkt, i, mainpc,
                 sent, delivered, history>>

\* lines 180-182: if error: break
L_if_error ==
  /\ At(lpc, "if_error")
  /\ Release("LAN")
  /\ lpc' = IF error THEN "exit" ELSE "recv"
  /\ UNCHANGED <<error, waiting_for_ack, transports, config, network, vlocal,
                 lpkt, i, mainpc, sent, delivered, history>>

\* line 185: pkt = lan.recv_packets() returns a non-empty list, and
\* parseLANPacket is False (line 187)
L_recv ==
  /\ At(lpc, "recv")
  /\ ~parseLANPacket
  /\ delivered < frames
  /\ \E batch \in Batches(LanFrames, frames - delivered) :
       /\ lpkt' = batch
       /\ delivered' = delivered + Len(batch)
  /\ lpc' = "send"
  /\ UNCHANGED <<shared, transports, config, network, vlocal, i, mainpc, sent,
                 history>>

\* lines 203-208: a non-empty list with parseLANPacket True raises
\* NotImplementedError; the bare except at line 209
L_recv_parse ==
  /\ At(lpc, "recv")
  /\ parseLANPacket
  /\ delivered < frames
  /\ \E batch \in Batches(LanFrames, frames - delivered) :
       delivered' = delivered + Len(batch)
  /\ lpc' = "while"
  /\ UNCHANGED <<shared, transports, config, network, vlocal, lpkt, i, mainpc,
                 sent, history>>

\* line 185 returns [] (line 186 is false)
L_recv_none ==
  /\ At(lpc, "recv")
  /\ lpc' = "while"
  /\ UNCHANGED <<shared, transports, config, network, vlocal, lpkt, i, mainpc,
                 sent, delivered, history>>

\* line 185 raises: the bare except at line 209
L_recv_raise ==
  /\ At(lpc, "recv")
  /\ lpc' = "while"
  /\ UNCHANGED <<shared, transports, config, network, vlocal, lpkt, i, mainpc,
                 sent, delivered, history>>

\* a variant that sends the message back to the LAN transport as well
L_send_echo ==
  /\ At(lpc, "send")
  /\ vanetSent' = sendVANET_first(vanetSent, lpkt[1])
  /\ lanSent' = [n |-> lanSent.n + 1, by |-> "LAN", data |-> lpkt[1]]
  /\ ackSinceFwd' = IF vpc = "clear" \/ (vpc = "decode" /\ vpkt[1] = ack)
                      THEN "stale" ELSE "none"
  /\ lpc' = "set"
  /\ UNCHANGED <<shared, transports, config, network, vlocal, lpkt, i, mainpc,
                 delivered, run>>

\* line 188: sendVANET(pkt[0])
L_send ==
  /\ At(lpc, "send")
  /\ vanetSent' = sendVANET_first(vanetSent, lpkt[1])
  /\ ackSinceFwd' = IF vpc = "clear" \/ (vpc = "decode" /\ vpkt[1] = ack)
                      THEN "stale" ELSE "none"
  /\ lpc' = "set"
  /\ UNCHANGED <<shared, transports, config, network, vlocal, lpkt, i, mainpc,
                 lanSent, delivered, run>>

\* line 190: waiting_for_ack = True, outside any `with mutex`; the for loop
\* is about to start
L_set ==
  /\ At(lpc, "set")
  /\ waiting_for_ack' = TRUE
  /\ i' = 0
  /\ lpc' = "for"
  /\ UNCHANGED <<error, mutex, transports, config, network, vlocal, lpkt,
                 mainpc, sent, delivered, history>>

\* a variant that is off by one
ForContinues_one_more(done) == done <= MaxRetries

\* line 193: does `for i in range(120)` run its body once more, after `done`
\* iterations
ForContinues(done) == done < MaxRetries

\* lines 192 or 200, 193-194: time.sleep(1.0); another iteration, with mutex
L_for ==
  /\ At(lpc, "for")
  /\ ForContinues(i)
  /\ Acquire("LAN")
  /\ lpc' = "if_waiting"
  /\ UNCHANGED <<error, waiting_for_ack, transports, config, network, vlocal,
                 lpkt, i, mainpc, sent, delivered, history>>

\* lines 200, 193: time.sleep(1.0); range(120) is exhausted
L_for_end ==
  /\ At(lpc, "for")
  /\ ~ForContinues(i)
  /\ lpc' = "after"
  /\ UNCHANGED <<shared, transports, config, network, vlocal, lpkt, i, mainpc,
                 sent, delivered, history>>

\* lines 195-197: waiting_for_ack is true: sendVANET(pkt[0]) inside the with,
\* then leave it
L_resend ==
  /\ At(lpc, "if_waiting")
  /\ waiting_for_ack
  /\ vanetSent' = sendVANET_again(vanetSent, lpkt[1])
  /\ Release("LAN")
  /\ i' = i + 1
  /\ lpc' = "for"
  /\ UNCHANGED <<error, waiting_for_ack, transports, config, network, vlocal,
                 lpkt, mainpc, lanSent, delivered, history>>

\* a variant that breaks whatever waiting_for_ack is
L_break_unconditional ==
  /\ At(lpc, "if_waiting")
  /\ Release("LAN")
  /\ lpc' = "after"
  /\ UNCHANGED <<error, waiting_for_ack, transports, config, network, vlocal,
                 lpkt, i, mainpc, sent, delivered, history>>

\* lines 198-199: else: break, leaving the with
L_break ==
  /\ At(lpc, "if_waiting")
  /\ ~waiting_for_ack
  /\ Release("LAN")
  /\ lpc' = "after"
  /\ UNCHANGED <<error, waiting_for_ack, transports, config, network, vlocal,
                 lpkt, i, mainpc, sent, delivered, history>>

\* line 201 reads waiting_for_ack False, outside any with
L_after ==
  /\ At(lpc, "after")
  /\ ~waiting_for_ack
  /\ lpc' = "while"
  /\ lpkt' = <<>>
  /\ i' = 0
  /\ UNCHANGED <<shared, transports, config, network, vlocal, mainpc, sent,
                 delivered, history>>

\* a variant in which the delivery failure ends the loop
L_after_raise_fatal ==
  /\ At(lpc, "after")
  /\ waiting_for_ack
  /\ lpc' = "exit"
  /\ lpkt' = <<>>
  /\ i' = 0
  /\ UNCHANGED <<shared, transports, config, network, vlocal, mainpc, sent,
                 delivered, history>>

\* lines 201-202 read it True: raise Exception("Ack was never received"),
\* caught by the bare except at line 209
L_after_raise ==
  /\ At(lpc, "after")
  /\ waiting_for_ack
  /\ lpc' = "while"
  /\ lpkt' = <<>>
  /\ i' = 0
  /\ UNCHANGED <<shared, transports, config, network, vlocal, mainpc, sent,
                 delivered, history>>

\* line 216: with mutex
L_exit ==
  /\ At(lpc, "exit")
  /\ Acquire("LAN")
  /\ lpc' = "set_error"
  /\ UNCHANGED <<error, waiting_for_ack, transports, config, network, vlocal,
                 lpkt, i, mainpc, sent, delivered, history>>

\* lines 217-218: error = True
L_set_error ==
  /\ At(lpc, "set_error")
  /\ Release("LAN")
  /\ error' = TRUE
  /\ lpc' = "done"
  /\ UNCHANGED <<waiting_for_ack, transports, config, network, vlocal, lpkt, i,
                 mainpc, sent, delivered, history>>

LAN_listening_thread ==
  \/ L_while \/ L_while_error \/ L_if_error
  \/ L_recv \/ L_recv_parse \/ L_recv_none \/ L_recv_raise
  \/ L_send \/ L_set
  \/ L_for \/ L_for_end \/ L_resend \/ L_break
  \/ L_after \/ L_after_raise
  \/ L_exit \/ L_set_error

(***************************************************************************)
(* main() (lines 229-256).                                                 *)
(***************************************************************************)
\* lines 242-246, first thread of the list: LAN_mt.start()
M_start_LAN ==
  /\ mainpc = "startLAN"
  /\ lpc' = "while"
  /\ mainpc' = "startVANET"
  /\ UNCHANGED <<shared, transports, config, network, vlocal, lpkt, i, sent,
                 delivered, history>>

\* lines 242-246, second thread: VANET_mt.start()
M_start_VANET ==
  /\ mainpc = "startVANET"
  /\ vpc' = "while"
  /\ mainpc' = "watch"
  /\ UNCHANGED <<shared, transports, config, network, previous_packet_received,
                 vpkt, llocal, sent, delivered, history>>

\* lines 250, 254-255: `while not error` reads True, finally: error = True
M_watch ==
  /\ mainpc = "watch"
  /\ error
  /\ error' = TRUE
  /\ mainpc' = "done"
  /\ UNCHANGED <<waiting_for_ack, mutex, transports, config, network, vlocal,
                 llocal, sent, delivered, history>>

\* lines 252-255: KeyboardInterrupt in the loop, finally: error = True
M_interrupt ==
  /\ mainpc = "watch"
  /\ error' = TRUE
  /\ mainpc' = "done"
  /\ UNCHANGED <<waiting_for_ack, mutex, transports, config, network, vlocal,
                 llocal, sent, delivered, history>>

main == M_start_LAN \/ M_start_VANET \/ M_watch \/ M_interrupt

Next ==
  \/ VANET_listening_thread
  \/ LAN_listening_thread
  \/ main

Spec == Init /\ [][Next]_vars

(***************************************************************************)
(* The same program over transports whose send_data may raise (a socket    *)
(* error).  Every call of sendVANET and sendLAN is inside the try of its   *)
(* loop, so the bare except of the loop (line 164, line 209) catches the   *)
(* exception; what a failed call was given counts as not sent.             *)
(***************************************************************************)
\* line 151: sendVANET(ack) raises in the duplicate branch
V_duplicate_send_raise ==
  /\ At(vpc, "decode")
  /\ data.ok
  /\ Classify(Str(data.v), previous_packet_received) = "duplicate"
  /\ vpc' = "while"
  /\ vpkt' = <<>>
  /\ UNCHANGED <<shared, transports, config, network, previous_packet_received,
                 llocal, mainpc, sent, delivered, history>>

\* line 154: sendVANET(ack) raises in the new-message branch; lines 155-156
\* are skipped
V_new_ack_raise ==
  /\ At(vpc, "decode")
  /\ data.ok
  /\ Classify(Str(data.v), previous_packet_received) = "new"
  /\ vpc' = "while"
  /\ vpkt' = <<>>
  /\ UNCHANGED <<shared, transports, config, network, previous_packet_received,
                 llocal, mainpc, sent, delivered, history>>

\* lines 154-155: the acknowledgment went out, strip_header returned, and
\* lan.send_data raises; line 156 is skipped
V_new_send_raise ==
  /\ At(vpc, "decode")
  /\ data.ok
  /\ Classify(Str(data.v), previous_packet_received) = "new"
  /\ sendLAN(lanSent, "VANET", vpkt[1]).ok
  /\ vanetSent' = sendVANET_ack(vanetSent, ack, 154)
  /\ vpc' = "while"
  /\ vpkt' = <<>>
  /\ UNCHANGED <<shared, transports, config, network, previous_packet_received,
                 llocal, mainpc, lanSent, delivered, history>>

\* line 188: sendVANET(pkt[0]) raises; line 190 is skipped
L_send_raise ==
  /\ At(lpc, "send")
  /\ lpc' = "while"
  /\ lpkt' = <<>>
  /\ UNCHANGED <<shared, transports, config, network, vlocal, i, mainpc, sent,
                 delivered, history>>

\* a variant whose critical section is left without releasing the mutex
L_resend_raise_held ==
  /\ At(lpc, "if_waiting")
  /\ waiting_for_ack
  /\ mutex = "LAN"
  /\ lpc' = "while"
  /\ lpkt' = <<>>
  /\ i' = 0
  /\ UNCHANGED <<shared, transports, config, network, vlocal, mainpc, sent,
                 delivered, history>>

\* line 196: sendVANET(pkt[0]) raises inside `with mutex`: the with statement
\* releases the mutex while the exception leaves the for loop
L_resend_raise ==
  /\ At(lpc, "if_waiting")
  /\ waiting_for_ack
  /\ Release("LAN")
  /\ lpc' = "while"
  /\ lpkt' = <<>>
  /\ i' = 0
  /\ UNCHANGED <<error, waiting_for_ack, transports, config, network, vlocal,
                 mainpc, sent, delivered, history>>

SendFailure ==
  \/ V_duplicate_send_raise \/ V_new_ack_raise \/ V_new_send_raise
  \/ L_send_raise \/ L_resend_raise

NextSendFails ==
  \/ VANET_listening_thread
  \/ LAN_listening_thread
  \/ main
  \/ SendFailure

SpecSendFails == Start(SendFailFrames) /\ [][NextSendFails]_vars

(***************************************************************************)
(* Scheduling.  Each loop is a thread of its own (lines 233-245); every     *)
(* step of a loop returns after a bounded time: the polls and the sleeps   *)
(* are timed, and a critical section holds no blocking call, so a loop     *)
(* that asks for the mutex again and again finds it free sooner or later.  *)
(* That is strong fairness of each loop.  main starts both threads. No     *)
(* fairness is asked of main's watch loop nor of the interrupt: the loops  *)
(* have to stop without them.                                              *)
(***************************************************************************)
VanetSteps ==
  \/ VANET_listening_thread
  \/ V_duplicate_send_raise \/ V_new_ack_raise \/ V_new_send_raise

LanSteps == LAN_listening_thread \/ L_send_raise \/ L_resend_raise

Fairness ==
  /\ SF_vars(VanetSteps)
  /\ SF_vars(LanSteps)
  /\ WF_vars(M_start_LAN \/ M_start_VANET)

SpecFair == Start(FairFrames) /\ [][NextSendFails]_vars /\ Fairness

\* no loop will run another step: the process is gone, or both loops have
\* returned
Stopped == ~Running \/ (vpc = "done" /\ lpc = "done")

(***************************************************************************)
(* The program with a VANET peer at the other end of sendVANET (line 123). *)
(* The peer answers every frame it receives with the acknowledgment b"1"   *)
(* that line 146 expects and sends nothing else.  The channel may lose a    *)
(* frame or an acknowledgment, hold it back for any time and deliver it    *)
(* more than once; messages are numbered in the order of their first      *)
(* transmission, vanetSent.LAN.msgs being the number of the latest.        *)
(***************************************************************************)
\* a copy of a transmitted message reaches the peer, which acknowledges it
P_receive ==
  /\ Running
  /\ acksInFlight < MaxAcks
  /\ \E m \in 1..vanetSent.LAN.msgs : peerGot' = peerGot \cup {m}
  /\ acksInFlight' = acksInFlight + 1
  /\ UNCHANGED <<shared, transports, config, frames, vlocal, llocal, mainpc,
                 sent, delivered, history>>

\* the channel delivers an acknowledgment once more
P_duplicate ==
  /\ Running
  /\ acksInFlight > 0
  /\ acksInFlight < MaxAcks
  /\ acksInFlight' = acksInFlight + 1
  /\ UNCHANGED <<shared, transports, config, frames, peerGot, vlocal, llocal,
                 mainpc, sent, delivered, history>>

\* the channel loses an acknowledgment
P_lose ==
  /\ Running
  /\ acksInFlight > 0
  /\ acksInFlight' = acksInFlight - 1
  /\ UNCHANGED <<shared, transports, config, frames, peerGot, vlocal, llocal,
                 mainpc, sent, delivered, history>>

peer == P_receive \/ P_duplicate \/ P_lose

\* line 140: recv_packets() returns one acknowledgment of the peer
V_recv_peer ==
  /\ At(vpc, "recv")
  /\ ~parseVANETPacket
  /\ delivered < frames
  /\ acksInFlight > 0
  /\ acksInFlight' = acksInFlight - 1
  /\ vpkt' = <<ack>>
  /\ delivered' = delivered + 1
  /\ run' = NextRun(<<ack>>)
  /\ vpc' = "decode"
  /\ UNCHANGED <<shared, transports, config, frames, peerGot,
                 previous_packet_received, llocal, mainpc, sent, ackSinceFwd>>

\* lines 140, 158-161: the same with parseVANETPacket True:
\* NotImplementedError, the bare except at line 164
V_recv_peer_parse ==
  /\ At(vpc, "recv")
  /\ parseVANETPacket
  /\ delivered < frames
  /\ acksInFlight > 0
  /\ acksInFlight' = acksInFlight - 1
  /\ delivered' = delivered + 1
  /\ run' = NextRun(<<ack>>)
  /\ vpc' = "while"
  /\ UNCHANGED <<shared, transports, config, frames, peerGot,
                 previous_packet_received, vpkt, llocal, mainpc, sent,
                 ackSinceFwd>>

\* the VANET loop when all it is handed are the peer's acknowledgments
VANET_listening_thread_peer ==
  \/ V_while \/ V_while_error \/ V_if_error
  \/ V_recv_peer \/ V_recv_peer_parse \/ V_recv_none \/ V_recv_raise
  \/ V_ack \/ V_clear
  \/ V_exit \/ V_set_error

NextPeer ==
  \/ VANET_listening_thread_peer
  \/ LAN_listening_thread
  \/ main
  \/ peer

SpecPeer == Start(PeerFrames) /\ [][NextPeer]_vars

(***************************************************************************)
(* Vocabulary of the properties.                                           *)
(***************************************************************************)
\* the LAN thread is between its first transmission (line 188) and the end of
\* the for loop (lines 190-200)
InRetryCycle == lpc \in {"set", "for", "if_waiting"}

\* a step in which the LAN thread calls vanet.send_data
LanSends == vanetSent'.LAN # vanetSent.LAN

\* ... for the first time for a newly polled message (line 188)
LanFirstTransmission == vanetSent'.LAN.msgs # vanetSent.LAN.msgs

\* ... again for the same message (line 196)
LanRetransmission == LanSends /\ ~LanFirstTransmission

\* a step in which the VANET thread calls vanet.send_data or lan.send_data
VanetSends == vanetSent'.VANET # vanetSent.VANET \/ lanSent' # lanSent

\* a step of the VANET thread that polls its transport or begins with a timed
\* wait
VanetPollsOrWaits == vpc \in {"recv", "while"} /\ vpc' # vpc

\* a step of the LAN thread that polls its transport or begins with a timed
\* wait
LanPollsOrWaits == lpc \in {"recv", "while", "for"} /\ lpc' # lpc

\* no acknowledgment was processed since the LAN thread's last first
\* transmission
NoAckProcessed == ackSinceFwd \in {"none", "stale"}

\* an acknowledgment polled after that transmission was processed
FreshAckProcessed == ackSinceFwd \in {"noop", "cleared"}

\* the VANET thread has left its while loop
VanetLeft == vpc \in {"exit", "set_error", "done"}

(***************************************************************************)
(* C1. Duplicate suppression: when every VANET poll so far returned the    *)
(* same single frame M (k >= 1 polls), M being non-empty, not the          *)
(* acknowledgment, decodable and with a well-formed header, and the VANET  *)
(* loop has finished the iteration, then the LAN transport was sent to     *)
(* exactly once and the acknowledgment was sent exactly k times.           *)
(* The code violates it: the str `data` never equals the bytes object kept *)
(* in previous_packet_received, so every repeat is forwarded again.        *)
(***************************************************************************)
C1_DuplicateSuppression ==
  ( /\ ~parseVANETPacket
    /\ vpc = "while"
    /\ run.k >= 1
    /\ run.frame # ack
    /\ run.frame # <<>>
    /\ decode_utf8(run.frame).ok
    /\ strip_header(run.frame).ok )
  => (lanSent.n = 1 /\ vanetSent.VANET.n = run.k)

(***************************************************************************)
(* C2. At most one in flight: a first transmission of a LAN message never  *)
(* happens inside the retry cycle of the previous one, and a retry cycle   *)
(* ends only when waiting_for_ack was read false under the mutex or when   *)
(* all 120 iterations of the for loop are done.                            *)
(***************************************************************************)
C2_StopAndWait ==
  [][ /\ LanFirstTransmission => ~InRetryCycle
      /\ (InRetryCycle /\ ~InRetryCycle') =>
           \/ lpc = "if_waiting" /\ mutex = "LAN" /\ ~waiting_for_ack
           \/ lpc = "for" /\ i = MaxRetries ]_vars

\* the second LAN message has just been transmitted for the first time
C2_Witness == vanetSent.LAN.msgs = 2 /\ lpc = "set"

(***************************************************************************)
(* C3. Bounded retry: the for loop never runs more than 120 iterations;    *)
(* while no acknowledgment has been processed since the first transmission *)
(* the message has gone out once plus once per finished iteration; and     *)
(* when the cycle ends that way, 120 iterations are done, the same bytes   *)
(* went out 121 times and waiting_for_ack is still true, so line 202       *)
(* raises and the loop goes back to polling.                               *)
(***************************************************************************)
C3_BoundedRetry ==
  /\ i \in 0..MaxRetries
  /\ (lpc \in {"for", "if_waiting", "after"} /\ NoAckProcessed) =>
       /\ waiting_for_ack
       /\ vanetSent.LAN.data = lpkt[1]
       /\ vanetSent.LAN.n = i + 1
  /\ (lpc = "after" /\ NoAckProcessed) =>
       /\ i = MaxRetries
       /\ vanetSent.LAN.n = MaxRetries + 1

\* a cycle has run out with no acknowledgment processed
C3_Witness ==
  /\ lpc = "after"
  /\ NoAckProcessed
  /\ vanetSent.LAN.n = MaxRetries + 1

(***************************************************************************)
(* C4. Ack clears wait: once an acknowledgment (polled after the last       *)
(* forward) has cleared a true waiting_for_ack, the flag is not set again  *)
(* before the LAN loop forwards its next newly polled message, and only    *)
(* the LAN loop's line 190 ever sets it.  The code violates it: line 190   *)
(* runs after the send of line 188 and outside the mutex, so an            *)
(* acknowledgment processed between the two lines is followed by the flag  *)
(* going true with no new forward.                                         *)
(***************************************************************************)
C4_AckClearsWait ==
  [][ (~waiting_for_ack /\ waiting_for_ack') =>
        (lpc = "set" /\ ackSinceFwd # "cleared") ]_vars

(***************************************************************************)
(* C5, as stated. Once the VANET loop has terminated on its transport's    *)
(* flag, having set error, the LAN loop is at its iteration boundary after *)
(* at most one wait: it does not go on to retransmit.                      *)
(***************************************************************************)
C5_FatalWithinOneInterval ==
  [][ (vanet_error /\ vpc = "done" /\ error) => ~LanRetransmission ]_vars

(***************************************************************************)
(* C5, amended. The VANET loop leaves its loop at the boundary where it    *)
(* reads vanet.error true, a loop that has terminated has set error, error *)
(* is never reset, and a loop that reads error true at its boundary starts *)
(* no further iteration.  The LAN loop reads error nowhere else: inside a  *)
(* retry cycle it goes on retransmitting until the cycle ends.             *)
(***************************************************************************)
C5_FatalAtBoundary ==
  [][ /\ error => error'
      /\ vanet_error' => VanetLeft'
      /\ vpc' = "done" => error'
      /\ lpc' = "done" => error'
      /\ (error /\ vpc = "if_error" /\ vpc' # vpc) => vpc' = "exit"
      /\ (error /\ lpc = "if_error" /\ lpc' # lpc) => lpc' = "exit" ]_vars

\* both loops have terminated after the VANET transport's flag was read true
C5_Witness ==
  vanet_error /\ error /\ vpc = "done" /\ lpc = "done" /\ vanetSent.LAN.n > 1

(***************************************************************************)
(* C6. Lock discipline: a thread whose next step reads or writes error or  *)
(* waiting_for_ack holds the mutex.  The code violates it at lines 190 and *)
(* 201 (LAN thread) and at lines 250 and 255 (main).                       *)
(***************************************************************************)
\* positions whose step reads or writes error or waiting_for_ack
VanetAccesses == {"if_error", "clear", "set_error"}

LanAccesses == {"if_error", "set", "if_waiting", "after", "set_error"}

MainAccesses == {"watch"}

C6_LockDiscipline ==
  /\ vpc \in VanetAccesses => mutex = "VANET"
  /\ lpc \in LanAccesses => mutex = "LAN"
  /\ mainpc \in MainAccesses => mutex = "main"

(***************************************************************************)
(* C7. No lost update: if an acknowledgment polled after the LAN loop's     *)
(* first transmission of the message has been processed, the LAN loop's    *)
(* checks of waiting_for_ack for that message find it false.  The code     *)
(* violates it: line 190 overwrites a clearing done between lines 188 and  *)
(* 190.                                                                    *)
(***************************************************************************)
C7_NoLostUpdate ==
  (lpc \in {"for", "if_waiting"} /\ FreshAckProcessed) => ~waiting_for_ack

(***************************************************************************)
(* C8, as stated. No loop sends, polls or waits while it holds the mutex.  *)
(***************************************************************************)
C8_NoIOUnderLock ==
  [][ /\ (VanetSends \/ VanetPollsOrWaits) => mutex # "VANET"
      /\ (LanSends \/ LanPollsOrWaits) => mutex # "LAN" ]_vars

(***************************************************************************)
(* C8, amended. No loop polls or waits while it holds the mutex and the    *)
(* VANET loop sends nothing while it holds it; the one send made under the *)
(* mutex is the LAN loop's retransmission at line 196, made after it read  *)
(* waiting_for_ack true in the same critical section.                      *)
(***************************************************************************)
C8_OnlyRetransmissionUnderLock ==
  [][ /\ (VanetSends \/ VanetPollsOrWaits) => mutex # "VANET"
      /\ LanPollsOrWaits => mutex # "LAN"
      /\ LanFirstTransmission => mutex # "LAN"
      /\ LanRetransmission =>
           /\ mutex = "LAN"
           /\ mutex' = "free"
           /\ lpc = "if_waiting"
           /\ waiting_for_ack ]_vars

\* a retransmission has been made and the mutex released
C8_Witness == lpc = "for" /\ vanetSent.LAN.n = 2 /\ mutex = "free"

(***************************************************************************)
(* C9, as stated. What the VANET loop hands to lan.send_data for a new     *)
(* message is the received frame, unmodified.                              *)
(***************************************************************************)
C9_RawToLan ==
  [][ lanSent' # lanSent =>
        /\ lanSent'.data = vpkt[1]
        /\ previous_packet_received' = Bytes(vpkt[1]) ]_vars

(***************************************************************************)
(* C9, amended. For a frame classified as new, lan.send_data receives      *)
(* strip_header(frame): the hex digits between "Payload=" and the frame's  *)
(* last byte, decoded; previous_packet_received becomes the frame as       *)
(* received.  When strip_header raises, nothing is sent to the LAN and     *)
(* previous_packet_received keeps its value.                               *)
(***************************************************************************)
C9_StrippedToLan ==
  [][ ( /\ vpc = "decode"
        /\ vpc' # vpc
        /\ data.ok
        /\ ~PyEq(Str(data.v), Str(ack))
        /\ ~PyEq(Str(data.v), previous_packet_received) ) =>
        IF strip_header(vpkt[1]).ok
          THEN /\ lanSent' = [n |-> lanSent.n + 1, by |-> "VANET",
                              data |-> strip_header(vpkt[1]).v]
               /\ vpkt[1] = FramedA => lanSent'.data = <<65>>
               /\ previous_packet_received' = Bytes(vpkt[1])
          ELSE /\ lanSent' = lanSent
               /\ previous_packet_received' = previous_packet_received ]_vars

\* the framed message went to the LAN as its decoded payload
C9_Witness ==
  /\ lanSent.n = 1
  /\ lanSent.data = <<65>>
  /\ previous_packet_received = Bytes(FramedA)

(***************************************************************************)
(* C10, as stated. What the LAN loop sends to the VANET transport is       *)
(* strip_header applied to the LAN frame.                                  *)
(***************************************************************************)
C10_StrippedToVanet ==
  [][ LanSends =>
        /\ strip_header(lpkt[1]).ok
        /\ vanetSent'.LAN.data = strip_header(lpkt[1]).v ]_vars

(***************************************************************************)
(* C10, amended. The first transmission and every retransmission carry the *)
(* LAN frame exactly as received: from the first transmission to the end   *)
(* of the cycle the last bytes sent are pkt[0], and they went out once     *)
(* plus once per finished iteration of the for loop.                       *)
(***************************************************************************)
C10_RawToVanet ==
  lpc \in {"set", "for", "if_waiting", "after"} =>
    /\ vanetSent.LAN.data = lpkt[1]
    /\ vanetSent.LAN.n = i + 1

\* the framed LAN message has been retransmitted, header and all
C10_Witness ==
  /\ lpc = "for"
  /\ i = 2
  /\ lpkt[1] = FramedA
  /\ vanetSent.LAN = [msgs |-> 1, data |-> FramedA, n |-> 3]

(***************************************************************************)
(* C11. No LAN message is skipped: with forwarding enabled and no VANET    *)
(* frame polled so far (so that `delivered` counts LAN frames only), when  *)
(* the LAN loop is between two iterations every LAN frame polled so far    *)
(* has had its own first transmission.  The code violates it: lines 188    *)
(* and 196 use pkt[0] only, the other frames of the list are dropped.      *)
(***************************************************************************)
C11_NoLanMessageSkipped ==
  (~parseLANPacket /\ run = NoRun /\ lpc \in {"while", "if_error", "recv"})
  => vanetSent.LAN.msgs = delivered

(***************************************************************************)
(* C12. Classification is total: the step that ends the VANET loop's       *)
(* handling of a poll result has sent one acknowledgment for every frame   *)
(* of the result that is not the acknowledgment sentinel.  The code        *)
(* violates it: a frame that is not UTF-8 raises at line 145 before any    *)
(* branch, and only pkt[0] is looked at.                                   *)
(***************************************************************************)
\* the frames of a poll result that are not the acknowledgment sentinel
NonAcks(batch) == Cardinality({j \in 1..Len(batch) : batch[j] # ack})

C12_ClassificationTotal ==
  [][ (vpc \in {"decode", "clear"} /\ vpc' = "while") =>
        vanetSent'.VANET.n = vanetSent.VANET.n + NonAcks(vpkt) ]_vars

C16_AckedImpliesForwarded ==
  [][ (vanetSent'.VANET.n # vanetSent.VANET.n /\ vanetSent'.VANET.line = 154)
      => /\ lanSent'.n = lanSent.n + 1
         /\ previous_packet_received' = Bytes(vpkt[1]) ]_vars

(***************************************************************************)
(* C19. No echo: the LAN transport is sent to only by the VANET loop, in   *)
(* the step that handles a frame it classified as new, and that step       *)
(* leaves the LAN loop and what it sent to the VANET transport alone.      *)
(***************************************************************************)
C19_NoEcho ==
  [][ lanSent' # lanSent =>
        /\ lanSent'.by = "VANET"
        /\ lanSent'.n = lanSent.n + 1
        /\ vpc = "decode"
        /\ vpc' = "while"
        /\ Classify(Str(data.v), previous_packet_received) = "new"
        /\ vanetSent'.LAN = vanetSent.LAN
        /\ UNCHANGED llocal ]_vars

\* a LAN message went out on the VANET transport and a VANET message on the
\* LAN transport
C19_Witness ==
  /\ vanetSent.LAN.msgs = 1
  /\ vanetSent.LAN.data = Unframed
  /\ lanSent = [n |-> 1, by |-> "VANET", data |-> <<65>>]

(***************************************************************************)
(* C13. Only persistent transport failure is fatal (over transports whose  *)
(* send may raise): error goes from false to true only in a loop's final   *)
(* `error = True` with its own transport's flag raised, or in main(); a    *)
(* loop reaches that assignment only with its transport's flag or error    *)
(* true; and a loop leaves its while only from the loop head, on reading   *)
(* its transport's flag or error true.  So a failed poll, a failed send, a *)
(* delivery failure and the not-implemented branch all lead back to the    *)
(* loop head.                                                              *)
(***************************************************************************)
C13_OnlyTransportFailureIsFatal ==
  [][ /\ (~error /\ error') =>
           \/ vpc = "set_error" /\ vpc' = "done" /\ vanet_error
           \/ lpc = "set_error" /\ lpc' = "done" /\ lan_error
           \/ mainpc = "watch" /\ mainpc' = "done"
      /\ (vpc # "done" /\ vpc' = "done") => (vanet_error \/ error)
      /\ (lpc # "done" /\ lpc' = "done") => (lan_error \/ error)
      /\ (vpc # "exit" /\ vpc' = "exit") =>
           /\ vpc \in {"while", "if_error"}
           /\ vanet_error' \/ error
      /\ (lpc # "exit" /\ lpc' = "exit") =>
           /\ lpc \in {"while", "if_error"}
           /\ lan_error' \/ error ]_vars

\* both loops are polling again with error false: the LAN loop after a cycle
\* that ran out unacknowledged, the VANET loop after lan.send_data raised on
\* the one message it acknowledged
C13_Witness ==
  /\ ~error
  /\ lpc = "recv"
  /\ waiting_for_ack
  /\ vanetSent.LAN.n = MaxRetries + 1
  /\ vpc = "recv"
  /\ ~parseVANETPacket
  /\ run = [frame |-> FramedA, k |-> 1]
  /\ vanetSent.VANET = [n |-> 1, data |-> ack, line |-> 154]
  /\ lanSent.n = 0

(***************************************************************************)
(* C14. error is absorbing: whoever set it (the VANET loop, the LAN loop,  *)
(* main), it is never set back to false; once it is true no loop passes    *)
(* the `if error` of its loop head into another iteration; a loop that has *)
(* returned stays returned; and under the fairness of SpecFair both loops  *)
(* eventually stop.                                                        *)
(***************************************************************************)
C14_ErrorAbsorbing ==
  /\ [][ /\ error => error'
         /\ error => ~(vpc = "if_error" /\ vpc' = "recv")
         /\ error => ~(lpc = "if_error" /\ lpc' = "recv")
         /\ vpc = "done" => vpc' = "done"
         /\ lpc = "done" => lpc' = "done" ]_vars
  /\ error ~> Stopped

\* the LAN loop set error on its transport's flag, the VANET loop saw it at
\* its loop head and returned, while main has not looked yet
C14_Witness ==
  /\ error
  /\ lan_error
  /\ ~vanet_error
  /\ lpc = "done"
  /\ vpc = "done"
  /\ mainpc = "watch"

(***************************************************************************)
(* C18. Deadlock freedom of the mutex (over transports whose send may      *)
(* raise, under the fairness of SpecFair): a loop holds the mutex exactly  *)
(* while it is inside one of its `with mutex:` blocks, so it never asks    *)
(* for a mutex it holds and every way out of a block, the failed           *)
(* retransmission of line 196 included, has released it; and no loop      *)
(* waits for the mutex forever while the process runs: a loop leaves its   *)
(* waiting only by acquiring the mutex.                                    *)
(***************************************************************************)
VanetInWith == vpc \in {"if_error", "clear", "set_error"}

LanInWith == lpc \in {"if_error", "if_waiting", "set_error"}

\* the loop is at a `with mutex:` it has not entered yet (lines 135, 171;
\* lines 179, 194, 216)
VanetWaits == vpc \in {"while", "exit"}

LanWaits == lpc \in {"while", "exit"} \/ (lpc = "for" /\ ForContinues(i))

C18_MutexDeadlockFree ==
  /\ [](mutex = "VANET" <=> VanetInWith)
  /\ [](mutex = "LAN" <=> LanInWith)
  /\ []<>~(Running /\ VanetWaits)
  /\ []<>~(Running /\ LanWaits)

\* the second retransmission raised inside the critical section, the LAN loop
\* is back at its loop head, and the VANET loop holds the mutex
C18_Witness ==
  /\ lpc = "while"
  /\ waiting_for_ack
  /\ vanetSent.LAN = [msgs |-> 1, data |-> FramedA, n |-> 2]
  /\ mutex = "VANET"
  /\ vpc = "if_error"

(***************************************************************************)
(* C17. Acknowledgments match the message in flight (with the VANET peer   *)
(* of SpecPeer): when the LAN loop ends the retry cycle of a message as    *)
(* successful, reading waiting_for_ack False at line 201, the peer has     *)
(* received that message.                                                  *)
(***************************************************************************)
C17_AckMatchesMessage ==
  [][ (lpc = "after" /\ lpc' = "while" /\ ~waiting_for_ack)
        => vanetSent.LAN.msgs \in peerGot ]_vars

====
